---- MODULE Spec2Model ----
(***************************************************************************)
(* Ritual pacing state machine of the Oracle of Delphi chatbot:            *)
(* backend/agent/tools.py (RitualStateMachine, the session registry) and   *)
(* backend/agent/graph.py (chat, chat_with_state).                         *)
(*                                                                         *)
(* Time is counted in ticks of half a second, so that the configured       *)
(* 1.5 s and 4.0 s are the integers 3 and 8.  Statements other than the    *)
(* external call and time.sleep take no time; time.sleep(d) lasts d.       *)
(***************************************************************************)
EXTENDS Integers, Sequences, FiniteSets, TLC

(* ------------------------------ bounds -------------------------------- *)
\* machines ever constructed
MaxMachines == 2
\* a client calls transition on machines with fewer events than this, and
\* force_reset on machines with at most this many
MaxHistory == 4
\* listeners registered per machine
MaxListeners == 2
\* the clock value up to which TimePasses lets time pass between calls
MaxTime == 1
\* requests served by the chat endpoint
MaxRequests == 2
\* longest latency of the external call, in ticks
MaxLatency == 9
\* in the registry specification, clients call transition, force_reset and
\* add_listener, and start a consult, while the machines hold fewer events and
\* listeners than this, all machines together
MaxRegistrySize == 3

(* ------------------------- program constants -------------------------- *)
\* TIMING_CONFIG["contemplation_min"] = 1.5 s, in ticks of 0.5 s
contemplation_min == 3
\* TIMING_CONFIG["contemplation_max"] = 4.0 s, in ticks of 0.5 s
contemplation_max == 8
\* TIMING_CONFIG["llm_timeout"] = 30.0 s, in ticks of 0.5 s; no statement reads it
llm_timeout == 60

SessionIds == {"s1", "s2"}
Callers == {1, 2}
Responses == {"r1", "r2"}
\* the callbacks a client may register: one that returns, one that raises
Callbacks == {"good", "raising"}

(* --------------------------- RitualState ------------------------------ *)
RitualState == {"IDLE", "INVOKED", "CONTEMPLATING", "REVEALING", "COMPLETE"}

\* the table with the entry of COMPLETE left empty
VALID_TRANSITIONS_dead_end(state) ==
    CASE state = "IDLE" -> {"INVOKED"}
      [] state = "INVOKED" -> {"CONTEMPLATING"}
      [] state = "CONTEMPLATING" -> {"REVEALING"}
      [] state = "REVEALING" -> {"COMPLETE"}
      [] OTHER -> {}

\* VALID_TRANSITIONS.get(state, []) as a set
VALID_TRANSITIONS(state) ==
    CASE state = "IDLE" -> {"INVOKED"}
      [] state = "INVOKED" -> {"CONTEMPLATING"}
      [] state = "CONTEMPLATING" -> {"REVEALING"}
      [] state = "REVEALING" -> {"COMPLETE"}
      [] state = "COMPLETE" -> {"IDLE", "INVOKED"}
      [] OTHER -> {}

(* ----------------------------- payloads ------------------------------- *)
\* a payload is None or a dict, the dict given by its set of items
None == [is_none |-> TRUE, items |-> {}]
Dict(items) == [is_none |-> FALSE, items |-> items]
ForcedPayload == Dict({<<"forced", "True">>})
ResponsePayload(response) == Dict({<<"response", response>>})
\* the payloads a direct caller of transition passes
ClientPayloads == {None, ResponsePayload("r1")}

(* ------------------------- RitualStateEvent --------------------------- *)
RitualStateEvent(state, session_id, timestamp, payload) ==
    [state |-> state, session_id |-> session_id,
     timestamp |-> timestamp, payload |-> payload]

\* stands for "no event" where a call returned none
NoEvent == RitualStateEvent("None", "None", 0, None)

(* ------------------------ RitualStateMachine -------------------------- *)
\* the dataclass after __init__ and __post_init__: __post_init__ only logs
NewRitualStateMachine(session_id) ==
    [session_id |-> session_id,
     current_state |-> "IDLE",
     state_history |-> <<>>,
     listeners |-> <<>>]

\* one call of a listener: what it is given and what it can read of the machine
ListenerCall(self, i, event) ==
    [listener |-> i,
     callback |-> self.listeners[i],
     event |-> event,
     seen_state |-> self.current_state,
     seen_len |-> Len(self.state_history),
     seen_last |-> self.state_history[Len(self.state_history)]]

RECURSIVE notify_from(_, _, _)
\* the for loop of _notify_listeners from listener i on: every listener is
\* called; an exception is caught and logged, and the loop goes on
notify_from(self, event, i) ==
    IF i > Len(self.listeners)
    THEN [calls |-> <<>>, raised |-> "none"]
    ELSE LET rest == notify_from(self, event, i + 1)
         IN [calls |-> <<ListenerCall(self, i, event)>> \o rest.calls,
             raised |-> rest.raised]

RECURSIVE notify_from_unguarded(_, _, _)
\* the loop without its try/except: the first raising listener ends it
notify_from_unguarded(self, event, i) ==
    IF i > Len(self.listeners)
    THEN [calls |-> <<>>, raised |-> "none"]
    ELSE IF self.listeners[i] = "raising"
         THEN [calls |-> <<ListenerCall(self, i, event)>>, raised |-> "Exception"]
         ELSE LET rest == notify_from_unguarded(self, event, i + 1)
              IN [calls |-> <<ListenerCall(self, i, event)>> \o rest.calls,
                  raised |-> rest.raised]

\* _notify_listeners with the try/except left out
notify_listeners_unguarded(self, event) == notify_from_unguarded(self, event, 1)

\* RitualStateMachine._notify_listeners
_notify_listeners(self, event) == notify_from(self, event, 1)

\* the result of a call on a machine: the exception raised ("none": it
\* returned), the machine afterwards, the event returned, the listener calls
CallResult(raised, self, event, calls) ==
    [raised |-> raised, self |-> self, event |-> event, calls |-> calls]

\* transition that skips the validity test
transition_unchecked(self, new_state, payload, t) ==
    LET event == RitualStateEvent(new_state, self.session_id, t, payload)
        after == [self EXCEPT !.current_state = new_state,
                              !.state_history = Append(@, event)]
        n == _notify_listeners(after, event)
    IN CallResult(n.raised, after, event, n.calls)

\* transition that notifies the listeners after the append to the history but
\* before current_state is assigned
transition_notify_early(self, new_state, payload, t) ==
    IF new_state \notin VALID_TRANSITIONS(self.current_state)
    THEN CallResult("RitualStateError", self, NoEvent, <<>>)
    ELSE LET event == RitualStateEvent(new_state, self.session_id, t, payload)
             appended == [self EXCEPT !.state_history = Append(@, event)]
             after == [appended EXCEPT !.current_state = new_state]
             n == _notify_listeners(appended, event)
         IN CallResult(n.raised, after, event, n.calls)

\* RitualStateMachine.transition, called at time t
transition(self, new_state, payload, t) ==
    IF new_state \notin VALID_TRANSITIONS(self.current_state)
    THEN CallResult("RitualStateError", self, NoEvent, <<>>)
    ELSE LET event == RitualStateEvent(new_state, self.session_id, t, payload)
             after == [self EXCEPT !.current_state = new_state,
                                   !.state_history = Append(@, event)]
             n == _notify_listeners(after, event)
         IN CallResult(n.raised, after, event, n.calls)

\* force_reset that goes through the transition table
force_reset_validated(self, t) == transition(self, "IDLE", ForcedPayload, t)

\* force_reset that starts the history afresh with the reset event
force_reset_truncating(self, t) ==
    LET event == RitualStateEvent("IDLE", self.session_id, t, ForcedPayload)
        after == [self EXCEPT !.current_state = "IDLE",
                              !.state_history = <<event>>]
        n == _notify_listeners(after, event)
    IN CallResult(n.raised, after, event, n.calls)

\* RitualStateMachine.force_reset, called at time t
force_reset(self, t) ==
    LET event == RitualStateEvent("IDLE", self.session_id, t, ForcedPayload)
        after == [self EXCEPT !.current_state = "IDLE",
                              !.state_history = Append(@, event)]
        n == _notify_listeners(after, event)
    IN CallResult(n.raised, after, event, n.calls)

add_listener(self, callback) ==
    [self EXCEPT !.listeners = Append(@, callback)]

is_accepting_input(self) == self.current_state \in {"IDLE", "COMPLETE"}

get_state_info(self) ==
    [current_state |-> self.current_state,
     session_id |-> self.session_id,
     accepting_input |-> is_accepting_input(self),
     history_length |-> Len(self.state_history)]

NoInfo ==
    [current_state |-> "None", session_id |-> "None",
     accepting_input |-> FALSE, history_length |-> 0]

(* ------------------------------ state --------------------------------- *)
VARIABLES
    \* _ritual_sessions: session id -> machine (0: the key is absent)
    ritual_sessions,
    \* every RitualStateMachine constructed so far; a machine is its index
    machines,
    \* time.time()
    now,
    \* the most recent call made on a machine or the registry and how it ended
    outcome,
    \* the listener calls made by that call
    notified,
    \* the frame of each caller of chat_with_state / get_ritual_machine
    frames,
    \* requests accepted so far
    nrequests,
    \* per machine, the calls of transition that returned an event so far
    successes

vars == <<ritual_sessions, machines, now, outcome, notified, frames, nrequests,
          successes>>

Outcome(op, m, raised, event) ==
    [op |-> op, m |-> m, raised |-> raised, event |-> event]

IdleFrame ==
    [pc |-> "idle", entry |-> "none", session_id |-> "None", ret_to |-> "none",
     ritual |-> 0, entry_state |-> "None", entry_len |-> 0,
     delay |-> 0, start_time |-> 0, llm_time |-> 0, remaining |-> 0, wake |-> 0,
     response |-> "None", raised |-> "none", info |-> NoInfo]

\* the module just imported: no session, no machine
Init ==
    /\ ritual_sessions = [s \in SessionIds |-> 0]
    /\ machines = <<>>
    /\ now = 0
    /\ outcome = Outcome("none", 0, "none", NoEvent)
    /\ notified = <<>>
    /\ frames = [c \in Callers |-> IdleFrame]
    /\ nrequests = 0
    /\ successes = <<>>

Machines == 1..Len(machines)

(* ------------------- direct calls, one at a time ---------------------- *)
\* get_ritual_machine that constructs and stores a machine on every call
GetRitualMachineAlwaysCreates(session_id) ==
    /\ machines' = Append(machines, NewRitualStateMachine(session_id))
    /\ successes' = Append(successes, 0)
    /\ ritual_sessions' = [ritual_sessions EXCEPT ![session_id] = Len(machines) + 1]
    /\ outcome' = Outcome("get_ritual_machine", ritual_sessions'[session_id],
                          "none", NoEvent)
    /\ notified' = <<>>
    /\ UNCHANGED <<now, frames, nrequests>>

\* get_ritual_machine(session_id), run without interruption
GetRitualMachine(session_id) ==
    /\ IF ritual_sessions[session_id] = 0
       THEN /\ machines' = Append(machines, NewRitualStateMachine(session_id))
            /\ successes' = Append(successes, 0)
            /\ ritual_sessions' = [ritual_sessions EXCEPT ![session_id] = Len(machines) + 1]
       ELSE UNCHANGED <<machines, successes, ritual_sessions>>
    /\ outcome' = Outcome("get_ritual_machine", ritual_sessions'[session_id],
                          "none", NoEvent)
    /\ notified' = <<>>
    /\ UNCHANGED <<now, frames, nrequests>>

\* clear_ritual_session without its membership test: del raises on an absent key
ClearRitualSessionUntested(session_id) ==
    /\ ritual_sessions' = [ritual_sessions EXCEPT ![session_id] = 0]
    /\ outcome' = Outcome("clear_ritual_session", ritual_sessions[session_id],
                          IF ritual_sessions[session_id] = 0 THEN "KeyError" ELSE "none",
                          NoEvent)
    /\ notified' = <<>>
    /\ UNCHANGED <<machines, now, frames, nrequests, successes>>

\* clear_ritual_session(session_id): the key is deleted if it is there; the
\* machine it stood for goes on existing for whoever still holds it
ClearRitualSession(session_id) ==
    /\ IF ritual_sessions[session_id] # 0
       THEN ritual_sessions' = [ritual_sessions EXCEPT ![session_id] = 0]
       ELSE UNCHANGED ritual_sessions
    /\ outcome' = Outcome("clear_ritual_session", ritual_sessions[session_id],
                          "none", NoEvent)
    /\ notified' = <<>>
    /\ UNCHANGED <<machines, now, frames, nrequests, successes>>

\* the effect of a call's result r on machine m
Apply(op, m, r) ==
    /\ machines' = [machines EXCEPT ![m] = r.self]
    /\ outcome' = Outcome(op, m, r.raised, r.event)
    /\ notified' = r.calls
    /\ successes' = IF op = "transition" /\ r.raised # "RitualStateError"
                     THEN [successes EXCEPT ![m] = @ + 1]
                     ELSE successes

\* machines[m].transition(new_state, payload) by a client holding the machine
Transition(m, new_state, payload) ==
    /\ Apply("transition", m, transition(machines[m], new_state, payload, now))
    /\ UNCHANGED <<ritual_sessions, now, frames, nrequests>>

\* machines[m].force_reset()
ForceReset(m) ==
    /\ Apply("force_reset", m, force_reset(machines[m], now))
    /\ UNCHANGED <<ritual_sessions, now, frames, nrequests>>

\* add_listener on a listener list that all machines share
AddListenerShared(m, callback) ==
    /\ machines' = [k \in DOMAIN machines |-> add_listener(machines[k], callback)]
    /\ outcome' = Outcome("add_listener", m, "none", NoEvent)
    /\ notified' = <<>>
    /\ UNCHANGED <<ritual_sessions, now, frames, nrequests, successes>>

\* machines[m].add_listener(callback)
AddListener(m, callback) ==
    /\ machines' = [machines EXCEPT ![m] = add_listener(@, callback)]
    /\ outcome' = Outcome("add_listener", m, "none", NoEvent)
    /\ notified' = <<>>
    /\ UNCHANGED <<ritual_sessions, now, frames, nrequests, successes>>

\* time passes between two calls
TimePasses ==
    /\ now' = now + 1
    /\ UNCHANGED <<ritual_sessions, machines, outcome, notified, frames, nrequests,
                   successes>>

\* a client calls transition on a machine that has room for one more event
HasRoom(m) == Len(machines[m].state_history) < MaxHistory

\* and force_reset also on a machine that is full, as its last call
HasRoomForReset(m) == Len(machines[m].state_history) <= MaxHistory

(* One machine, from its construction on, called by one client at a time. *)
Next ==
    \/ \E s \in SessionIds : machines = <<>> /\ GetRitualMachine(s)
    \/ \E m \in Machines, t \in RitualState, p \in ClientPayloads :
          HasRoom(m) /\ Transition(m, t, p)
    \/ \E m \in Machines : HasRoomForReset(m) /\ ForceReset(m)
    \/ \E m \in Machines, cb \in Callbacks :
          Len(machines[m].listeners) < MaxListeners /\ AddListener(m, cb)
    \/ now < MaxTime /\ TimePasses

Spec == Init /\ [][Next]_vars

(* ---------------- chat_with_state, statement by statement -------------- *)
\* A caller c runs chat_with_state(message, session_id) (graph.py:94-98), or
\* get_ritual_machine(session_id) alone, one statement per step; frames[c].pc
\* is the statement it is at.  get_agent() returns the compiled graph: the
\* endpoint has verified the API key before the call (main.py:42-43).

Frame(c) == frames[c]
At(c, pc) == frames[c].pc = pc
Goto(c, f) == frames' = [frames EXCEPT ![c] = f]

Entries == {"chat_with_state", "get_ritual_machine"}

\* contemplation_delay - llm_time (graph.py:82) computed as the delay alone
remaining_delay_full(contemplation_delay, llm_time) == contemplation_delay

\* remaining_delay = contemplation_delay - llm_time (graph.py:82)
remaining_delay(contemplation_delay, llm_time) == contemplation_delay - llm_time

\* a payload for REVEALING that drops the response
reveal_payload_none(response) == None

\* payload={"response": response} (graph.py:88)
reveal_payload(response) == ResponsePayload(response)

\* an entry test that never asks for a reset
needs_reset_never(self) == FALSE

\* not ritual.is_accepting_input() (graph.py:71)
needs_reset(self) == ~is_accepting_input(self)

\* the request reaches chat_with_state (or a caller calls get_ritual_machine)
Request(c, session_id, entry) ==
    /\ At(c, "idle")
    /\ nrequests < MaxRequests
    /\ nrequests' = nrequests + 1
    /\ Goto(c, [IdleFrame EXCEPT !.pc = "gm_check", !.entry = entry,
                                 !.session_id = session_id,
                                 !.ret_to = IF entry = "chat_with_state"
                                            THEN "L71" ELSE "done"])
    /\ UNCHANGED <<ritual_sessions, machines, now, outcome, notified, successes>>

\* tools.py:144  if session_id not in _ritual_sessions
GmCheck(c) ==
    /\ At(c, "gm_check")
    /\ Goto(c, [Frame(c) EXCEPT !.pc = IF ritual_sessions[Frame(c).session_id] = 0
                                       THEN "gm_create" ELSE "gm_return"])
    /\ UNCHANGED <<ritual_sessions, machines, now, outcome, notified, nrequests,
                   successes>>

\* tools.py:145  _ritual_sessions[session_id] = RitualStateMachine(session_id)
GmCreate(c) ==
    /\ At(c, "gm_create")
    /\ Len(machines) < MaxMachines
    /\ machines' = Append(machines, NewRitualStateMachine(Frame(c).session_id))
    /\ successes' = Append(successes, 0)
    /\ ritual_sessions' = [ritual_sessions EXCEPT ![Frame(c).session_id] = Len(machines) + 1]
    /\ Goto(c, [Frame(c) EXCEPT !.pc = "gm_return"])
    /\ UNCHANGED <<now, outcome, notified, nrequests>>

\* tools.py:146  return _ritual_sessions[session_id]
GmReturn(c) ==
    /\ At(c, "gm_return")
    /\ LET m == ritual_sessions[Frame(c).session_id]
       IN /\ Goto(c, IF m = 0
                     THEN [Frame(c) EXCEPT !.pc = "raised", !.raised = "KeyError"]
                     ELSE [Frame(c) EXCEPT !.pc = Frame(c).ret_to, !.ritual = m])
          /\ outcome' = Outcome("get_ritual_machine", m,
                                IF m = 0 THEN "KeyError" ELSE "none", NoEvent)
    /\ notified' = <<>>
    /\ UNCHANGED <<ritual_sessions, machines, now, nrequests, successes>>

\* a call on the caller's machine at statement pc; it goes on at next unless
\* the call raises, which ends chat with that exception
CallOnRitual(c, op, r, next) ==
    /\ Apply(op, Frame(c).ritual, r)
    /\ Goto(c, IF r.raised = "none"
               THEN [Frame(c) EXCEPT !.pc = next]
               ELSE [Frame(c) EXCEPT !.pc = "raised", !.raised = r.raised])
    /\ UNCHANGED <<ritual_sessions, now, nrequests>>

\* graph.py:71  if not ritual.is_accepting_input():
L71(c) ==
    /\ At(c, "L71")
    /\ LET self == machines[Frame(c).ritual]
       IN Goto(c, [Frame(c) EXCEPT !.pc = IF needs_reset(self) THEN "L72" ELSE "L74",
                                   !.entry_state = self.current_state,
                                   !.entry_len = Len(self.state_history)])
    /\ UNCHANGED <<ritual_sessions, machines, now, outcome, notified, nrequests,
                   successes>>

\* graph.py:72  ritual.force_reset()
L72(c) ==
    /\ At(c, "L72")
    /\ CallOnRitual(c, "force_reset",
                    force_reset(machines[Frame(c).ritual], now), "L74")

\* graph.py:74  ritual.transition(RitualState.INVOKED)
L74(c) ==
    /\ At(c, "L74")
    /\ CallOnRitual(c, "transition",
                    transition(machines[Frame(c).ritual], "INVOKED", None, now), "L75")

\* the consult goes on to the external call without entering CONTEMPLATING
L75Skipped(c) ==
    /\ At(c, "L75")
    /\ Goto(c, [Frame(c) EXCEPT !.pc = "L76"])
    /\ UNCHANGED <<ritual_sessions, machines, now, outcome, notified, nrequests,
                   successes>>

\* graph.py:75  ritual.transition(RitualState.CONTEMPLATING)
L75(c) ==
    /\ At(c, "L75")
    /\ CallOnRitual(c, "transition",
                    transition(machines[Frame(c).ritual], "CONTEMPLATING", None, now), "L76")

\* RitualStateMachine.get_contemplation_delay: what random.uniform may return
ContemplationDelays == contemplation_min..contemplation_max

\* graph.py:76-79  the delay is drawn, start_time is read, app.invoke is called
L76(c, delay) ==
    /\ At(c, "L76")
    /\ Goto(c, [Frame(c) EXCEPT !.pc = "L79", !.delay = delay, !.start_time = now])
    /\ UNCHANGED <<ritual_sessions, machines, now, outcome, notified, nrequests,
                   successes>>

\* app.invoke raises and the machine is rolled back to IDLE before chat ends
L79RaisesRollsBack(c, latency) ==
    /\ At(c, "L79")
    /\ now' = now + latency
    /\ Apply("force_reset", Frame(c).ritual, force_reset(machines[Frame(c).ritual], now'))
    /\ Goto(c, [Frame(c) EXCEPT !.pc = "raised", !.raised = "ExternalCallFailure"])
    /\ UNCHANGED <<ritual_sessions, nrequests>>

\* graph.py:79  app.invoke raises after latency ticks: chat ends with it
L79Raises(c, latency) ==
    /\ At(c, "L79")
    /\ now' = now + latency
    /\ Goto(c, [Frame(c) EXCEPT !.pc = "raised", !.raised = "ExternalCallFailure"])
    /\ UNCHANGED <<ritual_sessions, machines, outcome, notified, nrequests, successes>>

\* graph.py:79-80  app.invoke returns after latency ticks; llm_time is measured
L79Returns(c, latency, response) ==
    /\ At(c, "L79")
    /\ now' = now + latency
    /\ Goto(c, [Frame(c) EXCEPT !.pc = "L82", !.response = response,
                                !.llm_time = now' - Frame(c).start_time])
    /\ UNCHANGED <<ritual_sessions, machines, outcome, notified, nrequests, successes>>

\* graph.py:82-84  remaining_delay; time.sleep is called if it is positive
L82(c) ==
    /\ At(c, "L82")
    /\ LET remaining == remaining_delay(Frame(c).delay, Frame(c).llm_time)
       IN Goto(c, [Frame(c) EXCEPT !.pc = IF remaining > 0 THEN "L84" ELSE "L88",
                                   !.remaining = remaining,
                                   !.wake = IF remaining > 0 THEN now + remaining ELSE 0])
    /\ UNCHANGED <<ritual_sessions, machines, now, outcome, notified, nrequests,
                   successes>>

\* graph.py:84  time.sleep(remaining_delay) returns
L84(c) ==
    /\ At(c, "L84")
    /\ now' = IF now < Frame(c).wake THEN Frame(c).wake ELSE now
    /\ Goto(c, [Frame(c) EXCEPT !.pc = "L88"])
    /\ UNCHANGED <<ritual_sessions, machines, outcome, notified, nrequests, successes>>

\* graph.py:86-88  ritual.transition(RitualState.REVEALING, payload={...})
L88(c) ==
    /\ At(c, "L88")
    /\ CallOnRitual(c, "transition",
                    transition(machines[Frame(c).ritual], "REVEALING",
                               reveal_payload(Frame(c).response), now), "L89")

\* graph.py:89-91, 96-97  ritual.transition(RitualState.COMPLETE); chat returns
\* the response (its other locals are gone) and chat_with_state calls
\* get_ritual_machine
L89(c) ==
    /\ At(c, "L89")
    /\ Apply("transition", Frame(c).ritual,
             transition(machines[Frame(c).ritual], "COMPLETE", None, now))
    /\ Goto(c, IF outcome'.raised = "none"
               THEN [Frame(c) EXCEPT !.pc = "gm_check", !.ret_to = "L98",
                                     !.delay = 0, !.start_time = 0, !.llm_time = 0,
                                     !.remaining = 0, !.wake = 0]
               ELSE [Frame(c) EXCEPT !.pc = "raised", !.raised = outcome'.raised])
    /\ UNCHANGED <<ritual_sessions, now, nrequests>>

\* graph.py:98  return response, ritual.get_state_info()
L98(c) ==
    /\ At(c, "L98")
    /\ Goto(c, [Frame(c) EXCEPT !.pc = "done",
                                !.info = get_state_info(machines[Frame(c).ritual])])
    /\ UNCHANGED <<ritual_sessions, machines, now, outcome, notified, nrequests,
                   successes>>

\* the caller has taken the result (or the exception)
Return(c) ==
    /\ Frame(c).pc \in {"done", "raised"}
    /\ Goto(c, IdleFrame)
    /\ UNCHANGED <<ritual_sessions, machines, now, outcome, notified, nrequests,
                   successes>>

\* every latency of the external call the model follows
Latencies == 0..MaxLatency

\* one statement of caller c; the delay drawn, the latency and the response
\* of the external call come from the sets given
Step(c, delays, latencies, responses) ==
    \/ GmCheck(c)
    \/ GmCreate(c)
    \/ GmReturn(c)
    \/ L71(c)
    \/ L72(c)
    \/ L74(c)
    \/ L75(c)
    \/ \E d \in delays : L76(c, d)
    \/ \E lat \in latencies : L79Raises(c, lat)
    \/ \E lat \in latencies, r \in responses : L79Returns(c, lat, r)
    \/ L82(c)
    \/ L84(c)
    \/ L88(c)
    \/ L89(c)
    \/ L98(c)

(* The endpoint as deployed: chat_endpoint is a coroutine that calls the     *)
(* blocking chat_with_state (main.py:38-45), so the event loop serves one    *)
(* request at a time, each to its end.                                       *)
Server == 1

NextChat ==
    \/ \E s \in SessionIds : Request(Server, s, "chat_with_state")
    \/ Step(Server, ContemplationDelays, Latencies, Responses)
    \/ Return(Server)

SpecChat == Init /\ [][NextChat]_vars

(* Two threads, each making one call of chat_with_state or of                *)
(* get_ritual_machine: any interleaving of their statements.  The delay is   *)
(* the shortest or the longest, the external call is immediate or slowest.   *)
NextThreads ==
    \/ \E c \in Callers, s \in SessionIds, e \in Entries : Request(c, s, e)
    \/ \E c \in Callers :
          Step(c, {contemplation_min, contemplation_max}, {0, MaxLatency}, {"r1"})

SpecThreads == Init /\ [][NextThreads]_vars

(* The registry with both session ids in use: clients call                  *)
(* get_ritual_machine and clear_ritual_session, call the methods of the      *)
(* machines they got (also of one that was removed since), and consult      *)
(* through the endpoint; one call at a time, a consult running to its end.   *)
(* A consult draws the shortest delay and its external call is immediate.    *)
RECURSIVE SizeUpTo(_)
\* the events and listeners held by the first n machines
SizeUpTo(n) ==
    IF n = 0 THEN 0
    ELSE SizeUpTo(n - 1) + Len(machines[n].state_history) + Len(machines[n].listeners)

HasRegistryRoom == SizeUpTo(Len(machines)) < MaxRegistrySize

NextRegistry ==
    \/ /\ At(Server, "idle")
       /\ \/ \E s \in SessionIds :
                /\ ritual_sessions[s] # 0 \/ Len(machines) < MaxMachines
                /\ GetRitualMachine(s)
          \/ \E s \in SessionIds : ClearRitualSession(s)
          \/ \E m \in Machines, t \in RitualState :
                HasRegistryRoom /\ Transition(m, t, None)
          \/ \E m \in Machines : HasRegistryRoom /\ ForceReset(m)
          \/ \E m \in Machines : HasRegistryRoom /\ AddListener(m, "good")
    \/ \E s \in SessionIds : HasRegistryRoom /\ Request(Server, s, "chat_with_state")
    \/ Step(Server, {contemplation_min}, {0}, {"r1"})
    \/ Return(Server)

SpecRegistry == Init /\ [][NextRegistry]_vars

(* The endpoint with requests waiting: every request to /chat becomes a     *)
(* task of the one event loop (main.py:38-39, 64-66).  chat_endpoint awaits  *)
(* nothing: chat_with_state, app.invoke and time.sleep are blocking calls    *)
(* (main.py:45, graph.py:79, 84), so once the loop has entered a handler it  *)
(* runs no other task until that handler has ended.  The external call sets  *)
(* no timeout of its own (graph.py:40, 45, 79): it may return or raise at    *)
(* once or after more than llm_timeout.                                      *)

\* the request of task c has been submitted and its handler has not started
Pending(c) == frames[c].pc = "gm_check" /\ frames[c].ret_to = "L71"

\* the event loop is inside the handler of task c
Running(c) == frames[c].pc \notin {"idle", "done", "raised"} /\ ~Pending(c)

\* the event loop may run task c: it is inside no other handler
LoopFree(c) == \A d \in Callers \ {c} : ~Running(d)

\* the latencies of the external call followed for the endpoint
EndpointLatencies == {0, llm_timeout + 1}

\* one statement of the handler of task c
EndpointStep(c) ==
    /\ LoopFree(c)
    /\ Step(c, {contemplation_min, contemplation_max}, EndpointLatencies, {"r1"})

NextEndpoint ==
    \/ \E c \in Callers, s \in SessionIds : Request(c, s, "chat_with_state")
    \/ \E c \in Callers : EndpointStep(c)
    \/ \E c \in Callers : Return(c)

SpecEndpoint == Init /\ [][NextEndpoint]_vars

(* ============================== claims =============================== *)
(* ---------------------- claims about one machine ---------------------- *)
Last(seq) == seq[Len(seq)]

\* sequence a is a prefix of sequence b
IsPrefix(a, b) == Len(a) <= Len(b) /\ \A i \in 1..Len(a) : a[i] = b[i]

\* the machine the most recent call was made on
Called == machines[outcome.m]

\* the most recent call was a transition or a force_reset that got past the
\* validity test
CallMadeEvent ==
    /\ outcome.op \in {"transition", "force_reset"}
    /\ outcome.raised # "RitualStateError"

\* C1: transition to a target that is not in the allowed successors of the
\* current state fails with the invalid-transition error and changes nothing:
\* the machine (state, history) is as before and no listener is called.
C1_InvalidTransitionRejected ==
    [][\A m \in Machines, t \in RitualState, p \in ClientPayloads :
          (t \notin VALID_TRANSITIONS(machines[m].current_state) /\ Transition(m, t, p))
              => /\ outcome'.raised = "RitualStateError"
                 /\ outcome'.event = NoEvent
                 /\ machines' = machines
                 /\ notified' = <<>>]_vars

\* C1 witness: a machine with a history and a listener is in IDLE and has just
\* rejected a transition (to a target other than INVOKED).
C1_Witness ==
    /\ outcome.op = "transition"
    /\ outcome.raised = "RitualStateError"
    /\ Called.current_state = "IDLE"
    /\ Len(Called.state_history) > 0
    /\ Len(Called.listeners) > 0

\* C2: in every reachable state every machine has a non-empty history whose
\* last event carries the machine's current state, and its snapshot reports a
\* history_length of at least 1.
C2_HistoryNonEmptyEndsInCurrent ==
    \A m \in Machines :
        /\ Len(machines[m].state_history) >= 1
        /\ Last(machines[m].state_history).state = machines[m].current_state
        /\ get_state_info(machines[m]).history_length >= 1

\* C8: force_reset succeeds in whatever state the machine is, leaves it in
\* IDLE, appends exactly one event (state IDLE, payload forced) to the history,
\* returns it, and calls every registered listener with it.
C8_ForceResetAlwaysSucceeds ==
    [][\A m \in Machines :
          ForceReset(m)
              => LET e == outcome'.event
                 IN /\ outcome'.raised = "none"
                    /\ e.state = "IDLE"
                    /\ e.payload = Dict({<<"forced", "True">>})
                    /\ machines'[m].current_state = "IDLE"
                    /\ machines'[m].state_history = Append(machines[m].state_history, e)
                    /\ machines'[m].listeners = machines[m].listeners
                    /\ Len(notified') = Len(machines[m].listeners)
                    /\ \A i \in 1..Len(notified') :
                          notified'[i].listener = i /\ notified'[i].event = e]_vars

\* C8 witness: a machine with a listener was reset out of COMPLETE.
C8_Witness ==
    /\ outcome.op = "force_reset"
    /\ Len(Called.state_history) >= 2
    /\ Called.state_history[Len(Called.state_history) - 1].state = "COMPLETE"
    /\ Called.current_state = "IDLE"
    /\ Len(notified) > 0

\* C9: on a machine on which only transition was called, after n successful
\* transitions history_length is n + 1 and, for n > 0, the current state is
\* the target of the last successful transition.
C9_HistoryLengthIsSuccessesPlusOne ==
    \A m \in Machines :
        (\A i \in 1..Len(machines[m].state_history) :
              machines[m].state_history[i].payload # ForcedPayload)
            => /\ get_state_info(machines[m]).history_length = successes[m] + 1
               /\ successes[m] > 0 =>
                      machines[m].current_state = Last(machines[m].state_history).state

\* C10: a listener that raises does not make transition or force_reset fail:
\* the call returns the event, state and history are updated, and every
\* registered listener, those after the raising one included, got the event.
C10_RaisingListenerIsolated ==
    CallMadeEvent =>
        /\ outcome.raised = "none"
        /\ Len(Called.state_history) > 0
        /\ outcome.event = Last(Called.state_history)
        /\ Called.current_state = outcome.event.state
        /\ Len(notified) = Len(Called.listeners)
        /\ \A i \in 1..Len(notified) :
              /\ notified[i].listener = i
              /\ notified[i].callback = Called.listeners[i]
              /\ notified[i].event = outcome.event

\* C10 witness: a transition on a machine whose first listener raises and
\* whose second does not; the second was called.
C10_Witness ==
    /\ outcome.op = "transition"
    /\ outcome.raised = "none"
    /\ Called.listeners = <<"raising", "good">>
    /\ Len(notified) = 2
    /\ notified[2].callback = "good"

\* C11: a successful transition and a force_reset call each registered
\* listener exactly once, in registration order, with the event just created,
\* and only after the machine reflects it: the listener reads the new current
\* state and finds the event as the last entry of the history.
C11_ListenersCalledInOrderAfterUpdate ==
    CallMadeEvent =>
        /\ Len(notified) = Len(Called.listeners)
        /\ \A i \in 1..Len(notified) :
              /\ notified[i].listener = i
              /\ notified[i].callback = Called.listeners[i]
              /\ notified[i].event = outcome.event
              /\ notified[i].seen_state = outcome.event.state
              /\ notified[i].seen_len = Len(Called.state_history)
              /\ notified[i].seen_last = outcome.event

\* C11 witness: the second transition of a machine with two listeners; the
\* second listener was called and read a history of two events.
C11_Witness ==
    /\ outcome.op = "transition"
    /\ outcome.raised = "none"
    /\ outcome.event.state = "CONTEMPLATING"
    /\ Len(notified) = 2
    /\ notified[2].seen_len = 2
    /\ notified[2].seen_state = "CONTEMPLATING"

\* C16: the transition table is total over the five states and has no dead
\* end: every state has a non-empty set of successors, all of them states;
\* COMPLETE is the only state with two (IDLE and INVOKED), every other state
\* has exactly one; so every machine, whatever its state, has a target that
\* transition accepts.
C16_TableTotalNoDeadEnd ==
    /\ \A s \in RitualState :
          /\ VALID_TRANSITIONS(s) # {}
          /\ VALID_TRANSITIONS(s) \subseteq RitualState
          /\ Cardinality(VALID_TRANSITIONS(s)) = (IF s = "COMPLETE" THEN 2 ELSE 1)
    /\ VALID_TRANSITIONS("COMPLETE") = {"IDLE", "INVOKED"}
    /\ \A m \in Machines :
          /\ machines[m].current_state \in RitualState
          /\ \E t \in RitualState :
                transition(machines[m], t, None, now).raised # "RitualStateError"

\* C16 witness: a machine has been driven through the whole table, from IDLE
\* to COMPLETE, and a transition out of COMPLETE is accepted.
C16_Witness ==
    /\ outcome.op = "transition"
    /\ outcome.raised = "none"
    /\ Called.current_state = "COMPLETE"
    /\ Len(Called.state_history) = 4
    /\ transition(Called, "IDLE", None, now).raised = "none"

\* the state a machine had just before the i-th event of history h: that of
\* the previous event, IDLE (the state of construction) before the first
StateBefore(h, i) == IF i = 1 THEN "IDLE" ELSE h[i - 1].state

\* the event records a forced reset
IsForcedReset(event) == event.state = "IDLE" /\ event.payload = ForcedPayload

\* C18: the history of a machine is append-only and always a legal path: no
\* step removes or rewrites an entry (the history before is a prefix of the
\* history after), and every event is a forced reset (state IDLE, payload
\* forced) or has a state in the allowed successors of the state before it.
C18_HistoryAppendOnlyLegalPath ==
    /\ [](\A m \in Machines :
            LET h == machines[m].state_history
            IN \A i \in 1..Len(h) :
                  \/ IsForcedReset(h[i])
                  \/ h[i].state \in VALID_TRANSITIONS(StateBefore(h, i)))
    /\ [][\A m \in Machines :
             IsPrefix(machines[m].state_history, machines'[m].state_history)]_vars

\* C18 witness: a history that holds a forced reset between two legal
\* transitions, on a machine that was not in IDLE when it was reset.
C18_Witness ==
    \E m \in Machines :
        LET h == machines[m].state_history
        IN /\ Len(h) >= 3
           /\ h[1].state = "INVOKED"
           /\ IsForcedReset(h[2])
           /\ h[3].state = "INVOKED"

(* ------------------------ claims about chat --------------------------- *)
Max(a, b) == IF a >= b THEN a ELSE b

\* the frame of the one request the server is serving
F == frames[Server]
\* the machine that request works on, and its history
FRitual == machines[F.ritual]
FHistory == FRitual.state_history
\* the states of the events the consult has appended so far
FDriven == [i \in 1..(Len(FHistory) - F.entry_len) |-> FHistory[F.entry_len + i].state]

\* the consult is past its entry test (graph.py:71-72)
PastEntry ==
    \/ F.pc \in {"L74", "L75", "L76", "L79", "L82", "L84", "L88", "L89", "L98",
                 "done", "raised"}
    \/ F.pc \in {"gm_check", "gm_create", "gm_return"} /\ F.ret_to = "L98"

\* C3: a consult whose external call succeeds appends INVOKED, CONTEMPLATING,
\* REVEALING, COMPLETE in that order, after a forced IDLE exactly when the
\* machine was not accepting input; the REVEALING event carries the response
\* returned; the snapshot returned says COMPLETE and accepting_input.
C3_ConsultDrivesFullRitual ==
    (F.pc = "done" /\ F.entry = "chat_with_state") =>
        LET ritual == <<"INVOKED", "CONTEMPLATING", "REVEALING", "COMPLETE">>
            reset == F.entry_state \notin {"IDLE", "COMPLETE"}
            k == F.entry_len + (IF reset THEN 1 ELSE 0)
        IN /\ FDriven = (IF reset THEN <<"IDLE">> ELSE <<>>) \o ritual
           /\ reset => FHistory[F.entry_len + 1].payload = ForcedPayload
           /\ FHistory[k + 1].payload = None
           /\ FHistory[k + 2].payload = None
           /\ FHistory[k + 3].payload = Dict({<<"response", F.response>>})
           /\ FHistory[k + 4].payload = None
           /\ F.response \in Responses
           /\ F.info.current_state = "COMPLETE"
           /\ F.info.accepting_input = TRUE
           /\ F.info.session_id = F.session_id
           /\ F.info.history_length = Len(FHistory)

\* C3 witness: a consult that found its machine in COMPLETE has returned.
C3_Witness ==
    /\ F.pc = "done"
    /\ F.entry = "chat_with_state"
    /\ F.entry_state = "COMPLETE"
    /\ F.response = "r2"

\* C4: with target the delay drawn and elapsed the measured duration of the
\* external call, the sleep asked for is max(0, target - elapsed), and the
\* REVEALING event is stamped max(target, elapsed) after the start of the
\* call: never before the target, and with no delay added once elapsed >=
\* target.
C4_DelayIsFloor ==
    /\ F.pc = "L84" =>
          /\ F.remaining = F.delay - F.llm_time
          /\ F.remaining > 0
          /\ F.wake = F.start_time + F.llm_time + F.remaining
    /\ F.pc = "L88" =>
          /\ now - (F.start_time + F.llm_time) = Max(0, F.delay - F.llm_time)
          /\ now - F.start_time = Max(F.delay, F.llm_time)
    /\ F.pc = "L89" =>
          LET revealing == FHistory[Len(FHistory)]
          IN /\ revealing.state = "REVEALING"
             /\ revealing.timestamp - F.start_time = Max(F.delay, F.llm_time)
             /\ revealing.timestamp - F.start_time >= F.delay
             /\ F.llm_time >= F.delay =>
                    revealing.timestamp = F.start_time + F.llm_time

\* C4 witness: the external call took less than the target and the consult
\* has slept and revealed.
C4_Witness ==
    /\ F.pc = "L89"
    /\ 0 < F.llm_time
    /\ F.llm_time < F.delay
    /\ F.start_time > 0

\* C5: when the external call fails, chat ends with that failure; the machine
\* is in CONTEMPLATING, not accepting input, its last event is the
\* CONTEMPLATING event of this consult; and a machine leaves CONTEMPLATING
\* only by a consult's own REVEALING transition or by the force_reset of a
\* later consult (graph.py:72), never on its own.
C5_FailureLeavesContemplating ==
    /\ [](F.pc = "raised" =>
            /\ F.raised = "ExternalCallFailure"
            /\ FRitual.current_state = "CONTEMPLATING"
            /\ ~is_accepting_input(FRitual)
            /\ FDriven \in {<<"INVOKED", "CONTEMPLATING">>,
                            <<"IDLE", "INVOKED", "CONTEMPLATING">>}
            /\ Last(FHistory).state = "CONTEMPLATING")
    /\ [][\A m \in Machines :
             (machines[m].current_state = "CONTEMPLATING"
                 /\ machines'[m].current_state # "CONTEMPLATING")
             => \/ L72(Server) /\ F.ritual = m
                \/ L88(Server) /\ F.ritual = m]_vars

\* C5 witness: the external call of the second consult of a session failed.
C5_Witness ==
    /\ F.pc = "raised"
    /\ F.raised = "ExternalCallFailure"
    /\ F.entry_state = "COMPLETE"

\* C6: a consult that finds its machine not accepting input (in INVOKED,
\* CONTEMPLATING or REVEALING) first appends a forced IDLE event and then
\* runs as usual: no transition of it is rejected and, the external call
\* succeeding, it returns with the machine in COMPLETE.  A consult that finds
\* the machine in IDLE or COMPLETE appends no forced event.
C6_ConsultSelfHeals ==
    /\ \A m \in Machines :
          needs_reset(machines[m])
              <=> machines[m].current_state \in {"INVOKED", "CONTEMPLATING", "REVEALING"}
    /\ PastEntry =>
          LET ritual == <<"INVOKED", "CONTEMPLATING", "REVEALING", "COMPLETE">>
              reset == F.entry_state \in {"INVOKED", "CONTEMPLATING", "REVEALING"}
          IN /\ reset => /\ Len(FDriven) >= 1
                         /\ FHistory[F.entry_len + 1].state = "IDLE"
                         /\ FHistory[F.entry_len + 1].payload = ForcedPayload
                         /\ IsPrefix(Tail(FDriven), ritual)
             /\ ~reset => /\ IsPrefix(FDriven, ritual)
                          /\ \A i \in (F.entry_len + 1)..Len(FHistory) :
                                FHistory[i].payload # ForcedPayload
             /\ F.pc = "raised" => F.raised = "ExternalCallFailure"
             /\ F.pc = "done" => /\ FRitual.current_state = "COMPLETE"
                                 /\ F.info.current_state = "COMPLETE"

\* C6 witness: a consult that found its machine in CONTEMPLATING (left there
\* by a failed consult) has returned its response.
C6_Witness ==
    /\ F.pc = "done"
    /\ F.entry_state = "CONTEMPLATING"
    /\ F.info.current_state = "COMPLETE"

\* C17: when the consults are executed one after another, each external call
\* succeeding or failing, no transition call of a consult is rejected: every
\* transition a consult makes returns its event, and a consult ends with its
\* response or with the failure of the external call, nothing else.
C17_SequentialConsultsNeverRejected ==
    /\ outcome.op = "transition" =>
          /\ outcome.raised = "none"
          /\ outcome.event.state \in VALID_TRANSITIONS(StateBefore(Called.state_history,
                                                               Len(Called.state_history)))
    /\ F.raised \in {"none", "ExternalCallFailure"}
    /\ F.pc = "raised" => F.raised = "ExternalCallFailure"
    /\ F.pc = "done" => F.response \in Responses

\* C17 witness: the consult that follows a failed one (its machine was left
\* in CONTEMPLATING) has reset the machine and its transition to INVOKED was
\* accepted.
C17_Witness ==
    /\ F.pc = "L75"
    /\ F.entry_state = "CONTEMPLATING"
    /\ outcome.op = "transition"
    /\ outcome.raised = "none"
    /\ outcome.event.state = "INVOKED"

(* -------------------- claims about the registry ----------------------- *)
\* caller c has got its machine from get_ritual_machine
HoldsMachine(c) == frames[c].ritual # 0

\* C7: two callers of get_ritual_machine for the same unknown session id get
\* the same machine under every interleaving: one machine is constructed for
\* the id, and the machine a caller holds stays the one registered.
C7_ConcurrentGetOrCreateIsAtomic ==
    /\ \A s \in SessionIds :
          Cardinality({m \in Machines : machines[m].session_id = s}) <= 1
    /\ \A c \in Callers :
          HoldsMachine(c) => ritual_sessions[frames[c].session_id] = frames[c].ritual
    /\ \A c, d \in Callers :
          (HoldsMachine(c) /\ HoldsMachine(d)
              /\ frames[c].session_id = frames[d].session_id)
          => frames[c].ritual = frames[d].ritual

\* the session id an entry of the registry stands under, for a machine that
\* is registered
Registered(m) == \E s \in SessionIds : ritual_sessions[s] = m

\* C14: get_ritual_machine is idempotent: a call for a session id that is
\* registered returns the machine registered, and leaves the registry and
\* every machine (state, history, listeners) as they were; the second call
\* chat_with_state makes returns the machine the consult worked on; and an
\* entry of the registry changes only by clear_ritual_session of its id.
C14_GetOrCreateIdempotent ==
    [][/\ \A s \in SessionIds :
             (ritual_sessions[s] # 0 /\ GetRitualMachine(s))
                 => /\ outcome'.m = ritual_sessions[s]
                    /\ outcome'.raised = "none"
                    /\ ritual_sessions' = ritual_sessions
                    /\ machines' = machines
       /\ (At(Server, "gm_return") /\ ritual_sessions[F.session_id] # 0
              /\ GmReturn(Server))
             => /\ frames'[Server].ritual = ritual_sessions[F.session_id]
                /\ F.ret_to = "L98" => frames'[Server].ritual = F.ritual
                /\ ritual_sessions' = ritual_sessions
                /\ machines' = machines
       /\ \A s \in SessionIds :
             (ritual_sessions[s] # 0 /\ ritual_sessions'[s] # ritual_sessions[s])
                 => ClearRitualSession(s)]_vars

\* C14 witness: get_ritual_machine has returned, for a registered id, a
\* machine that had been driven out of IDLE before the call.
C14_Witness ==
    /\ outcome.op = "get_ritual_machine"
    /\ outcome.m # 0
    /\ ritual_sessions[Called.session_id] = outcome.m
    /\ Called.current_state = "INVOKED"
    /\ Len(Called.state_history) = 1
    /\ F.pc = "idle"

\* C15: clear_ritual_session(s) removes the entry of s when there is one and
\* changes nothing when there is none, without an error; no listener is
\* called, no machine (the removed one included) is modified, and the entries
\* of the other session ids stay.
C15_RemoveDeletesOrNoOp ==
    [][\A s \in SessionIds :
          ClearRitualSession(s)
              => /\ outcome'.raised = "none"
                 /\ ritual_sessions'[s] = 0
                 /\ ritual_sessions[s] = 0 => ritual_sessions' = ritual_sessions
                 /\ \A o \in SessionIds \ {s} : ritual_sessions'[o] = ritual_sessions[o]
                 /\ machines' = machines
                 /\ notified' = <<>>]_vars

\* C15 witness: the entry of a machine with a listener and an event has been
\* removed while the other session id stays registered.
C15_Witness ==
    /\ outcome.op = "clear_ritual_session"
    /\ outcome.m # 0
    /\ ritual_sessions[Called.session_id] = 0
    /\ Len(Called.listeners) = 1
    /\ Len(Called.state_history) = 1
    /\ \E o \in SessionIds : o # Called.session_id /\ ritual_sessions[o] # 0

\* every machine of a session id other than s, and every entry of the
\* registry other than that of s, is the same after the step
OthersUntouched(s) ==
    /\ \A k \in Machines : machines[k].session_id # s => machines'[k] = machines[k]
    /\ \A o \in SessionIds \ {s} : ritual_sessions'[o] = ritual_sessions[o]

\* C20: sessions are isolated: a transition, a force_reset or an add_listener
\* on a machine, a step of a consult for a session id, and get_ritual_machine
\* or clear_ritual_session of an id leave the machines of every other session
\* id (state, history, listeners) and the other entries of the registry
\* unchanged; every event of a history carries the session id of its machine,
\* and a machine is registered under its own session id.
C20_SessionsIsolated ==
    /\ [](/\ \A m \in Machines :
               \A i \in 1..Len(machines[m].state_history) :
                   machines[m].state_history[i].session_id = machines[m].session_id
          /\ \A s \in SessionIds :
               ritual_sessions[s] # 0 => machines[ritual_sessions[s]].session_id = s)
    /\ [][IF At(Server, "idle")
          THEN /\ \A m \in Machines :
                     (/\ outcome'.m = m
                      /\ \/ \E t \in RitualState : Transition(m, t, None)
                         \/ ForceReset(m)
                         \/ AddListener(m, "good"))
                         => OthersUntouched(machines[m].session_id)
               /\ \A s \in SessionIds :
                     (GetRitualMachine(s) \/ ClearRitualSession(s))
                         => OthersUntouched(s)
          ELSE Step(Server, {contemplation_min}, {0}, {"r1"})
                   => OthersUntouched(F.session_id)]_vars

\* C20 witness: a machine of one session id has been reset while the machine
\* registered under the other id stays in INVOKED with its one event.
C20_Witness ==
    /\ outcome.op = "force_reset"
    /\ Len(Called.state_history) = 2
    /\ \E k \in Machines :
          /\ machines[k].session_id # Called.session_id
          /\ Registered(k)
          /\ machines[k].current_state = "INVOKED"
          /\ Len(machines[k].state_history) = 1

(* --------------------- claims about scheduling ------------------------ *)
\* the consult of task c is inside its external call or its sleep
Suspended(c) == frames[c].pc \in {"L79", "L84"}

\* C12: while the consult of one session is suspended in its external call or
\* in its artificial delay, a consult of another session that was submitted
\* to the endpoint can make progress: its handler can take its next step.
C12_OtherSessionProgresses ==
    \A c, d \in Callers :
        (/\ Suspended(c)
         /\ Pending(d)
         /\ frames[d].session_id # frames[c].session_id)
            => ENABLED EndpointStep(d)

\* C13: the external call of a consult is bounded by llm_timeout: a call that
\* has not returned by then is failed, so no consult goes on to its delay and
\* its REVEALING transition with a call that took longer than llm_timeout.
C13_ExternalCallBoundedByTimeout ==
    \A c \in Callers :
        frames[c].pc \in {"L82", "L84", "L88"} => frames[c].llm_time <= llm_timeout

\* caller c is past its CONTEMPLATING transition and has not yet made its
\* REVEALING transition
Contemplates(c) == frames[c].pc \in {"L76", "L79", "L82", "L84", "L88"}

\* C19: with two consults in flight, under every interleaving no consult ends
\* with the invalid-transition error, and the machine of a consult that has
\* reached CONTEMPLATING stays in CONTEMPLATING until that consult makes its
\* own REVEALING transition.
C19_ConcurrentConsultsSafe ==
    \A c \in Callers :
        /\ frames[c].raised # "RitualStateError"
        /\ Contemplates(c) => machines[frames[c].ritual].current_state = "CONTEMPLATING"

====
